---- MODULE Spec2Model ----
(***************************************************************************)
(* github_stars_to_notion: get_stars pages through a user's starred        *)
(* repositories, sync_star_table reconciles them with the rows of a        *)
(* Notion table (add missing rows, fill empty descriptions, optionally     *)
(* delete rows whose star is gone).  The remote GitHub source and the      *)
(* Notion table are the environment: a list of pages and a list of rows.   *)
(***************************************************************************)
EXTENDS Naturals, Sequences, FiniteSets

\* ------------------------------------------------------------------ bounds
MaxStars == 2      \* records in a star list / items served by the remote
MaxPages == 2      \* pages the remote splits its items into
MaxRows  == 2      \* rows of the Notion table before sync_star_table is called
MaxMainRows == 1   \* rows of the Notion table before main is run
PageSize == 100    \* starredRepositories(first: 100 ...)

\* ------------------------------------------------------------------ values
StarUrls   == {"u1", "u2"}             \* GitHub repository URLs: never empty
StarNames  == {"A"}
StarDescs  == {"", "d1"}               \* "" is an empty or null description
RowUrls    == {"", "u1", "u2"}         \* a row's URL cell may be empty
RowNames   == {"N"}
RowDescs   == {"", "old"}

StarRecord == [name : StarNames, url : StarUrls, description : StarDescs]

NoCursor == 0                          \* end_cursor = None

SeqsUpTo(S, n) == UNION {[1..k -> S] : k \in 0..n}

VARIABLES
  pages,        \* remote: the pages GitHub serves, in order
  pc,           \* position of the run
  end_cursor,   \* get_stars: end_cursor
  fetched,      \* get_stars: the local list stars
  requests,     \* the queries sent so far: [first, after]
  stars,        \* main / sync_star_table: stars
  delete,       \* sync_star_table: delete
  table,        \* the Notion table: its rows, in get_rows order
  table0,       \* the table when the current run of sync_star_table began
  stars_by_url, \* sync_star_table: stars_by_url
  rows,         \* the rows cv.collection.get_rows() returned (row ids)
  rows_by_url,  \* sync_star_table: rows_by_url, in insertion order
  i,            \* index of the loop the run is in
  new_row,      \* sync_star_table: new_row (row id)
  writes,       \* the table writes the current run has issued
  skipped,      \* rows the scan warned about and skipped
  run           \* 1 for the first run of sync_star_table, 2 for the second

vars == <<pages, pc, end_cursor, fetched, requests, stars, delete, table, table0,
          stars_by_url, rows, rows_by_url, i, new_row, writes, skipped, run>>

\* ------------------------------------------------------------------ helpers
RECURSIVE Flatten(_)
Flatten(ps) == IF ps = <<>> THEN <<>> ELSE Head(ps) \o Flatten(Tail(ps))

RECURSIVE SelectIds(_, _)
\* the rows of t whose id is not in ids, in order
SelectIds(t, ids) ==
  IF t = <<>> THEN <<>>
  ELSE IF Head(t).id \in ids THEN SelectIds(Tail(t), ids)
       ELSE <<Head(t)>> \o SelectIds(Tail(t), ids)

Ids(t) == {t[k].id : k \in DOMAIN t}
RowOf(t, id) == t[CHOOSE k \in DOMAIN t : t[k].id = id]

RECURSIVE MaxId(_)
MaxId(t) == IF t = <<>> THEN 0
            ELSE IF Head(t).id > MaxId(Tail(t)) THEN Head(t).id ELSE MaxId(Tail(t))

\* ------------------------------------------------------------------ the Notion table
\* one write to the table: add_row(), setattr(row, field, value), row.remove()
Write(op, row, field, value) == [op |-> op, row |-> row, field |-> field, value |-> value]

BlankRow(id) == [id |-> id, URL |-> "", Name |-> "", Description |-> ""]

SetField(r, field, value) ==
  IF field = "Name" THEN [r EXCEPT !.Name = value]
  ELSE IF field = "URL" THEN [r EXCEPT !.URL = value]
  ELSE [r EXCEPT !.Description = value]

\* the effect of one write on the table; a new row goes after the rows there are
Apply(t, w) ==
  IF w.op = "add_row" THEN Append(t, BlankRow(w.row))
  ELSE IF w.op = "remove" THEN SelectIds(t, {w.row})
  ELSE [k \in DOMAIN t |-> IF t[k].id = w.row THEN SetField(t[k], w.field, w.value) ELSE t[k]]

RECURSIVE Replay(_, _)
Replay(t, ws) == IF ws = <<>> THEN t ELSE Replay(Apply(t, Head(ws)), Tail(ws))

\* ------------------------------------------------------------------ get_stars
\* the remote: the page after `cursor` pages, its hasNextPage and its endCursor
ServedPage(cursor)  == pages[cursor + 1]
HasNextPage(cursor) == cursor + 1 < Len(pages)
EndCursor(cursor)   == cursor + 1

\* after_clause: the cursor is attached only when end_cursor is truthy
AfterClause(cursor) == IF cursor # NoCursor THEN cursor ELSE NoCursor

Query(cursor) == [first |-> PageSize, after |-> AfterClause(cursor)]

\* mutation: each page replaces the list instead of extending it
Extend_Overwrite(acc, edges) == edges

\* for node in edges: stars.append(node['node'])
Extend(acc, edges) == acc \o edges

\* ------------------------------------------------------------------ sync_star_table
Put(f, k, v) == [x \in (DOMAIN f) \cup {k} |-> IF x = k THEN v ELSE f[x]]

RECURSIVE IndexStarsFrom(_, _, _)
IndexStarsFrom(idx, s, k) ==
  IF k > Len(s) THEN idx
  ELSE IndexStarsFrom(Put(idx, s[k].url, s[k]), s, k + 1)

\* stars_by_url[star['url']] = star, for star in stars
IndexStars(s) == IndexStarsFrom(<<>>, s, 1)

IndexedUrls(idx) == {idx[k].url : k \in DOMAIN idx}

\* len(getattr(row, url_col_name)) == 0
EmptyUrl(r) == Len(r.URL) = 0
\* mutation: a repeated URL is not noticed
DuplicateUrl_Never(r, idx) == FALSE

\* getattr(row, url_col_name) in rows_by_url
DuplicateUrl(r, idx) == r.URL \in IndexedUrls(idx)
\* rows_by_url[row.url] = row
IndexRow(idx, r) == Append(idx, [url |-> r.URL, row |-> r.id])

\* mutations: the test of the add loop dropped, or inverted
NeedsAdd_Always(star, idx) == TRUE
NeedsAdd_Inverted(star, idx) == star.url \in IndexedUrls(idx)

\* star['url'] not in rows_by_url
NeedsAdd(star, idx) == star.url \notin IndexedUrls(idx)
\* mutation: every indexed row is filled, empty or not
NeedsBackfill_Always(r) == TRUE

\* len(getattr(row, description_col_name)) == 0
NeedsBackfill(r) == Len(r.Description) = 0
\* backfill loop: if url not in stars_by_url: continue
StarGone(url, sidx) == url \notin DOMAIN sidx
\* mutation: the delete loop runs whatever delete is
AfterBackfill_Always(d) == "delete"

\* if delete: ... else the run is over
AfterBackfill(d) == IF d THEN "delete" ELSE "done"
\* mutation: the test of the delete loop inverted
IsOrphan_Inverted(url, sidx) == url \in DOMAIN sidx

\* delete loop: if url not in stars_by_url
IsOrphan(url, sidx) == url \notin DOMAIN sidx
\* mutation: the row index is built again from the table after the add loop
RECURSIVE Reindex(_, _)
Reindex(idx, t) ==
  IF t = <<>> THEN idx
  ELSE IF EmptyUrl(Head(t)) \/ Head(t).URL \in IndexedUrls(idx) THEN Reindex(idx, Tail(t))
       ELSE Reindex(IndexRow(idx, Head(t)), Tail(t))
LoopItems_Refreshed(idx, t) == Reindex(<<>>, t)

\* the rows the backfill and delete loops range over: rows_by_url.items()
LoopItems(idx, t) == idx

\* ------------------------------------------------------------------ initial states
RowCells == [URL : RowUrls, Name : RowNames, Description : RowDescs]

\* a table of n rows: row k has id k
MkTable(cells) ==
  [k \in DOMAIN cells |->
     [id |-> k, URL |-> cells[k].URL, Name |-> cells[k].Name,
      Description |-> cells[k].Description]]

TablesUpTo(n) == {MkTable(c) : c \in SeqsUpTo(RowCells, n)}

StarLists == SeqsUpTo(StarRecord, MaxStars)

\* what the remote serves: 1..MaxPages pages of at most PageSize items each
PageLists ==
  {ps \in UNION {[1..n -> StarLists] : n \in 1..MaxPages} :
     /\ Len(Flatten(ps)) <= MaxStars
     /\ \A k \in DOMAIN ps : Len(ps[k]) <= PageSize}

InitCommon ==
  /\ table0 = table
  /\ end_cursor = NoCursor
  /\ fetched = <<>>
  /\ requests = <<>>
  /\ stars_by_url = <<>>
  /\ rows = <<>>
  /\ rows_by_url = <<>>
  /\ i = 1
  /\ new_row = 0
  /\ writes = <<>>
  /\ skipped = <<>>
  /\ run = 1

\* main(): the stars come from get_stars and delete keeps its default
InitMain ==
  /\ pages \in PageLists
  /\ pc = "get_stars"
  /\ stars = <<>>
  /\ delete = FALSE
  /\ table \in TablesUpTo(MaxMainRows)
  /\ InitCommon

\* sync_star_table(url, token, stars, delete) called with a star list
InitSync ==
  /\ pages = << <<>> >>
  /\ pc = "sync"
  /\ stars \in StarLists
  /\ delete \in BOOLEAN
  /\ table \in TablesUpTo(MaxRows)
  /\ InitCommon

Init == InitMain \/ InitSync

\* ------------------------------------------------------------------ get_stars
fetch_vars == <<end_cursor, fetched, requests>>
sync_vars  == <<stars_by_url, rows, rows_by_url, i, new_row, skipped>>

\* one turn of the while loop: gh_query answers 200
FetchPage ==
  /\ pc = "get_stars"
  /\ requests' = Append(requests, Query(end_cursor))
  /\ fetched' = Extend(fetched, ServedPage(AfterClause(end_cursor)))
  /\ IF ~HasNextPage(AfterClause(end_cursor))
       THEN /\ pc' = "sync"                 \* break; return stars; main calls sync_star_table
            /\ stars' = fetched'
            /\ UNCHANGED end_cursor
       ELSE /\ end_cursor' = EndCursor(AfterClause(end_cursor))
            /\ UNCHANGED <<pc, stars>>
  /\ UNCHANGED <<pages, delete, table, table0, writes, run>>
  /\ UNCHANGED sync_vars

\* gh_query answers with another status: the exception leaves get_stars and main
GhQueryFail ==
  /\ pc = "get_stars"
  /\ requests' = Append(requests, Query(end_cursor))
  /\ pc' = "fetch_failed"
  /\ UNCHANGED <<pages, end_cursor, fetched, stars, delete, table, table0, writes, run>>
  /\ UNCHANGED sync_vars

\* ------------------------------------------------------------------ sync_star_table
frame == <<pages, stars, delete, table0, run>>

\* index the stars, then cv.collection.get_rows()
SyncStart ==
  /\ pc = "sync"
  /\ stars_by_url' = IndexStars(stars)
  /\ rows' = [k \in DOMAIN table |-> table[k].id]
  /\ rows_by_url' = <<>>
  /\ i' = 1
  /\ pc' = "scan"
  /\ UNCHANGED <<table, writes, new_row, skipped>>
  /\ UNCHANGED frame /\ UNCHANGED fetch_vars

\* for row in cv.collection.get_rows()
ScanRow ==
  /\ pc = "scan"
  /\ IF i > Len(rows)
       THEN /\ pc' = "add" /\ i' = 1
            /\ UNCHANGED <<rows_by_url, skipped>>
       ELSE LET r == RowOf(table, rows[i]) IN
            /\ i' = i + 1
            /\ pc' = pc
            /\ IF EmptyUrl(r)
                 THEN /\ skipped' = Append(skipped, r.id)     \* warning, continue
                      /\ UNCHANGED rows_by_url
                 ELSE IF DuplicateUrl(r, rows_by_url)
                 THEN /\ skipped' = Append(skipped, r.id)     \* warning, continue
                      /\ UNCHANGED rows_by_url
                 ELSE /\ rows_by_url' = IndexRow(rows_by_url, r)
                      /\ UNCHANGED skipped
  /\ UNCHANGED <<table, writes, stars_by_url, rows, new_row>>
  /\ UNCHANGED frame /\ UNCHANGED fetch_vars

\* issue one write: the table changes and the write is logged
Issue(w) ==
  /\ table' = Apply(table, w)
  /\ writes' = Append(writes, w)

\* for star in stars: if star['url'] not in rows_by_url: new_row = add_row()
AddStar ==
  /\ pc = "add"
  /\ IF i > Len(stars)
       THEN /\ pc' = "backfill" /\ i' = 1
            /\ UNCHANGED <<table, writes, new_row>>
       ELSE IF NeedsAdd(stars[i], rows_by_url)
       THEN /\ Issue(Write("add_row", MaxId(table) + 1, "", ""))
            /\ new_row' = MaxId(table) + 1
            /\ pc' = "add_name"
            /\ UNCHANGED i
       ELSE /\ i' = i + 1
            /\ UNCHANGED <<pc, table, writes, new_row>>
  /\ UNCHANGED <<stars_by_url, rows, rows_by_url, skipped>>
  /\ UNCHANGED frame /\ UNCHANGED fetch_vars

\* setattr(new_row, name_col_name, star['name'])
SetName ==
  /\ pc = "add_name"
  /\ Issue(Write("set", new_row, "Name", stars[i].name))
  /\ pc' = "add_desc"
  /\ UNCHANGED sync_vars /\ UNCHANGED frame /\ UNCHANGED fetch_vars

\* setattr(new_row, description_col_name, star['description'])
SetDescription ==
  /\ pc = "add_desc"
  /\ Issue(Write("set", new_row, "Description", stars[i].description))
  /\ pc' = "add_url"
  /\ UNCHANGED sync_vars /\ UNCHANGED frame /\ UNCHANGED fetch_vars

\* setattr(new_row, url_col_name, star['url'])
SetUrl ==
  /\ pc = "add_url"
  /\ Issue(Write("set", new_row, "URL", stars[i].url))
  /\ pc' = "add"
  /\ i' = i + 1
  /\ UNCHANGED <<stars_by_url, rows, rows_by_url, new_row, skipped>>
  /\ UNCHANGED frame /\ UNCHANGED fetch_vars

\* the row the loop over LoopItems is at
ItemRow(k) == RowOf(table, LoopItems(rows_by_url, table)[k].row)
ItemUrl(k) == LoopItems(rows_by_url, table)[k].url

\* for url, row in rows_by_url.items(): fill an empty description
Backfill ==
  /\ pc = "backfill"
  /\ IF i > Len(LoopItems(rows_by_url, table))
       THEN /\ pc' = AfterBackfill(delete)
            /\ i' = 1
            /\ UNCHANGED <<table, writes>>
       ELSE /\ i' = i + 1
            /\ pc' = pc
            /\ IF NeedsBackfill(ItemRow(i)) /\ ~StarGone(ItemUrl(i), stars_by_url)
                 THEN Issue(Write("set", ItemRow(i).id, "Description",
                                  stars_by_url[ItemUrl(i)].description))
                 ELSE UNCHANGED <<table, writes>>
  /\ UNCHANGED <<stars_by_url, rows, rows_by_url, new_row, skipped>>
  /\ UNCHANGED frame /\ UNCHANGED fetch_vars

\* if delete: for url, row in rows_by_url.items(): row.remove()
DeleteRow ==
  /\ pc = "delete"
  /\ IF i > Len(LoopItems(rows_by_url, table))
       THEN /\ pc' = "done"
            /\ UNCHANGED <<i, table, writes>>
       ELSE IF IsOrphan(ItemUrl(i), stars_by_url)
       THEN /\ Issue(Write("remove", LoopItems(rows_by_url, table)[i].row, "", ""))
            /\ pc' = "delete_report"
            /\ UNCHANGED i
       ELSE /\ i' = i + 1
            /\ UNCHANGED <<pc, table, writes>>
  /\ UNCHANGED <<stars_by_url, rows, rows_by_url, new_row, skipped>>
  /\ UNCHANGED frame /\ UNCHANGED fetch_vars

\* print(f'Deleted row for {row[name_col_name]}')
DeleteReport ==
  /\ pc = "delete_report"
  /\ pc' = "delete"
  /\ i' = i + 1
  /\ UNCHANGED <<table, writes, stars_by_url, rows, rows_by_url, new_row, skipped>>
  /\ UNCHANGED frame /\ UNCHANGED fetch_vars

\* the step the run is at calls the Notion client
CallsTable ==
  \/ pc \in {"sync", "add_name", "add_desc", "add_url", "delete_report"}
  \/ pc = "add" /\ i <= Len(stars) /\ NeedsAdd(stars[i], rows_by_url)
  \/ /\ pc = "backfill" /\ i <= Len(LoopItems(rows_by_url, table))
     /\ NeedsBackfill(ItemRow(i)) /\ ~StarGone(ItemUrl(i), stars_by_url)
  \/ /\ pc = "delete" /\ i <= Len(LoopItems(rows_by_url, table))
     /\ IsOrphan(ItemUrl(i), stars_by_url)

\* mutation: the writes of the run are undone when a call raises
TableCallFail_Rollback ==
  /\ CallsTable
  /\ pc' = "sync_failed"
  /\ table' = table0
  /\ UNCHANGED writes
  /\ UNCHANGED sync_vars /\ UNCHANGED frame /\ UNCHANGED fetch_vars

\* a call of the Notion client raises: nothing catches it, the run ends there
TableCallFail ==
  /\ CallsTable
  /\ pc' = "sync_failed"
  /\ UNCHANGED <<table, writes>>
  /\ UNCHANGED sync_vars /\ UNCHANGED frame /\ UNCHANGED fetch_vars

\* the program is run again with the same stars (main passes no delete)
SecondRun ==
  /\ pc = "done"
  /\ run = 1
  /\ ~delete
  /\ run' = 2
  /\ pc' = "sync"
  /\ table0' = table
  /\ writes' = <<>>
  /\ skipped' = <<>>
  /\ new_row' = 0
  /\ UNCHANGED <<pages, stars, delete, table, stars_by_url, rows, rows_by_url, i>>
  /\ UNCHANGED fetch_vars

Next ==
  \/ FetchPage
  \/ GhQueryFail
  \/ SyncStart
  \/ ScanRow
  \/ AddStar
  \/ SetName
  \/ SetDescription
  \/ SetUrl
  \/ Backfill
  \/ DeleteRow
  \/ DeleteReport
  \/ TableCallFail
  \/ SecondRun

Spec == Init /\ [][Next]_vars

\* ------------------------------------------------------------------ properties
\* vocabulary of the properties, over the table and the star list themselves
StarUrlSet == {stars[k].url : k \in DOMAIN stars}

\* the last record of the star list with URL u
LastStar(u) ==
  stars[CHOOSE k \in DOMAIN stars :
          stars[k].url = u /\ \A j \in DOMAIN stars : j > k => stars[j].url # u]

\* row k of t is the first row of t with its URL, and the URL is not empty
Canonical(t, k) == t[k].URL # "" /\ \A j \in 1..(k - 1) : t[j].URL # t[k].URL

CanonicalIds(t) == {t[k].id : k \in {j \in DOMAIN t : Canonical(t, j)}}

RowsWithUrl(t, u) == LET Test(r) == r.URL = u IN SelectSeq(t, Test)
StarsWithUrl(u)   == LET Test(r) == r.url = u IN SelectSeq(stars, Test)

\* the rows of the table the current run created, in table order
NewRows == LET Test(r) == r.id \notin Ids(table0) IN SelectSeq(table, Test)

AsRecord(r) == [name |-> r.Name, url |-> r.URL, description |-> r.Description]

HasWrite(op) == \E k \in DOMAIN writes : writes[k].op = op

\* C1: a second run with the same star list and delete = False issues no
\* table write at all (no add_row, no field set, no remove).
C1_SecondRunWritesNothing == run = 2 => writes = <<>>

\* C2 (as claimed): after a completed run every star record has exactly one
\* row with its URL, and that row has a non-empty name and description.
C2_ExactlyOneFilledRow ==
  pc = "done" =>
    \A k \in DOMAIN stars :
      /\ Len(RowsWithUrl(table, stars[k].url)) = 1
      /\ RowsWithUrl(table, stars[k].url)[1].Name # ""
      /\ RowsWithUrl(table, stars[k].url)[1].Description # ""

\* C2 (amended): after a completed run every star record has at least one row
\* with its URL.  If the table already had rows with that URL, exactly those
\* rows remain and the first of them has a non-empty description whenever the
\* last star record with that URL has one; otherwise the table holds exactly
\* one new row per star record with that URL, carrying that record's name,
\* description and URL.
C2_PostRun ==
  pc = "done" =>
    \A k \in DOMAIN stars :
      LET u    == stars[k].url
          now  == RowsWithUrl(table, u)
          was  == RowsWithUrl(table0, u)
      IN /\ Len(now) >= 1
         /\ was # <<>> =>
              /\ [j \in DOMAIN now |-> now[j].id] = [j \in DOMAIN was |-> was[j].id]
              /\ LastStar(u).description # "" => now[1].Description # ""
         /\ was = <<>> =>
              [j \in DOMAIN now |-> AsRecord(now[j])] = StarsWithUrl(u)

C2_Witness ==
  /\ pc = "done"
  /\ Len(stars) = 2
  /\ \E k \in DOMAIN stars : RowsWithUrl(table0, stars[k].url) = <<>>
  /\ \E k \in DOMAIN stars :
       /\ RowsWithUrl(table0, stars[k].url) # <<>>
       /\ RowsWithUrl(table0, stars[k].url)[1].Description = ""
       /\ RowsWithUrl(table, stars[k].url)[1].Description # ""

C4_PaginationComplete ==
  /\ Len(requests) <= Len(pages)
  /\ \A k \in DOMAIN requests :
       requests[k] = [first |-> PageSize, after |-> IF k = 1 THEN NoCursor ELSE k - 1]
  /\ (requests # <<>> /\ pc \notin {"get_stars", "fetch_failed"}) =>
       /\ stars = Flatten(pages)
       /\ Len(requests) = Len(pages)

C4_Witness ==
  /\ pc = "sync"
  /\ Len(pages) = 2
  /\ Len(pages[1]) = 1 /\ Len(pages[2]) = 1
  /\ pages[1] # pages[2]
  /\ Len(requests) = 2

\* C5: a run never changes the name or URL of a row that was in the table
\* before it, keeps every non-empty description, changes an empty description
\* only to the description of the last star record with the row's URL, and
\* has done so for every first row of a star's URL when the run completes.
C5_BackfillOnly ==
  \A k \in DOMAIN table0 :
    table0[k].id \in Ids(table) =>
      LET r0 == table0[k]
          r  == RowOf(table, r0.id)
      IN /\ r.Name = r0.Name
         /\ r.URL = r0.URL
         /\ r0.Description # "" => r.Description = r0.Description
         /\ r.Description # r0.Description =>
              /\ r0.URL \in StarUrlSet
              /\ r.Description = LastStar(r0.URL).description
         /\ (pc = "done" /\ r0.Description = "" /\ Canonical(table0, k)
               /\ r0.URL \in StarUrlSet) =>
              r.Description = LastStar(r0.URL).description

C5_Witness ==
  /\ pc = "done"
  /\ \E k \in DOMAIN table0 :
       /\ table0[k].Description = ""
       /\ table0[k].id \in Ids(table)
       /\ RowOf(table, table0[k].id).Description = "d1"
  /\ \E k \in DOMAIN table0 :
       /\ table0[k].Description = "old"
       /\ table0[k].URL \in StarUrlSet
       /\ LastStar(table0[k].URL).description = "d1"

\* C6: with delete = False no row is removed and a row whose URL matches no
\* star record stays exactly as it was; with delete = True only first rows
\* of a URL that matches no star record are removed, and all of them are
\* removed when the run completes.
C6_DeleteGating ==
  /\ ~delete =>
       /\ ~HasWrite("remove")
       /\ \A k \in DOMAIN table0 :
            table0[k].URL \notin StarUrlSet =>
              \E j \in DOMAIN table : table[j] = table0[k]
  /\ delete =>
       /\ \A k \in DOMAIN table0 :
            table0[k].id \notin Ids(table) =>
              /\ Canonical(table0, k)
              /\ table0[k].URL \notin StarUrlSet
       /\ pc = "done" =>
            \A k \in DOMAIN table0 :
              (Canonical(table0, k) /\ table0[k].URL \notin StarUrlSet) =>
                table0[k].id \notin Ids(table)

C6_Witness ==
  /\ pc = "done" /\ delete
  /\ HasWrite("remove")
  /\ \E k \in DOMAIN table0 :
       table0[k].URL \in StarUrlSet /\ table0[k].id \in Ids(table)

Failed == {"fetch_failed", "sync_failed"}

\* C8: a failed page request ends the run with no star list handed on and no
\* table write; a failed table call ends the run with the table as the
\* writes issued so far left it; nothing happens after either failure.
C8_FailStop ==
  [][/\ pc \notin Failed
     /\ pc' = "fetch_failed" =>
          /\ stars' = <<>> /\ writes' = <<>> /\ table' = table0'
     /\ pc' = "sync_failed" =>
          /\ table' = table /\ writes' = writes
          /\ table' = Replay(table0', writes')]_vars

C8_Witness ==
  /\ pc = "sync_failed"
  /\ requests # <<>>
  /\ Len(writes) = 2
  /\ table # table0

\* C9: once the add loop is over, the rows the run created are, in order, one
\* row for each star record whose URL no row of the table had, with that
\* record's name, description and URL.
C9_AddMissing ==
  pc \in {"backfill", "delete", "delete_report", "done"} =>
    LET Missing(s) == \A k \in DOMAIN table0 : table0[k].URL # s.url
        created == NewRows
    IN [j \in DOMAIN created |-> AsRecord(created[j])] = SelectSeq(stars, Missing)

C9_Witness ==
  /\ pc = "done"
  /\ table0 = <<>>
  /\ stars = <<[name |-> "A", url |-> "u1", description |-> "d1"]>>
  /\ Len(table) = 1
  /\ AsRecord(table[1]) = stars[1]

\* C10: in the writes of one run every write to a row the run creates comes
\* before every write to an older row, and every description fill before
\* every removal; a created row gets add_row and one set of each field and
\* nothing else, so it is neither filled again nor removed.
C10_SnapshotOrder ==
  LET Created(w) == w.row \notin Ids(table0)
      OfRow(id) == LET Test(w) == w.row = id IN SelectSeq(writes, Test)
      Steps == <<[op |-> "add_row", field |-> ""], [op |-> "set", field |-> "Name"],
                 [op |-> "set", field |-> "Description"], [op |-> "set", field |-> "URL"]>>
  IN /\ \A p, q \in DOMAIN writes :
          p < q => /\ ~(~Created(writes[p]) /\ Created(writes[q]))
                   /\ ~(writes[p].op = "remove" /\ writes[q].op = "set")
     /\ \A p \in DOMAIN writes :
          Created(writes[p]) =>
            LET ws == OfRow(writes[p].row)
            IN /\ Len(ws) <= Len(Steps)
               /\ \A j \in DOMAIN ws :
                    [op |-> ws[j].op, field |-> ws[j].field] = Steps[j]

C10_Witness ==
  /\ pc = "done" /\ delete
  /\ HasWrite("add_row")
  /\ HasWrite("remove")
  /\ \E k \in DOMAIN table :
       table[k].id \notin Ids(table0) /\ table[k].Description = ""

====
